---- MODULE Spec2Model ----
(***************************************************************************)
(* Model of cbc/dataset.py: the staged, checkpointed evaluation pipeline   *)
(* evaluate_dataset, its checkpoint writer _save_json_tmp_file and the     *)
(* files it reads and writes.  One behaviour is a sequence of invocations  *)
(* of the same command on the same dataset file; an invocation can end     *)
(* normally, by an exception of an engine or a metric, or by the process   *)
(* being killed.                                                           *)
(*                                                                         *)
(* Optional values (a key that is absent or null) are None == <<>> and     *)
(* Some(v) == <<v>>.  A JSON object with ordered keys (plugin_outputs) is  *)
(* a sequence of <<key, value>> pairs in insertion order.                  *)
(***************************************************************************)
EXTENDS Integers, Sequences, FiniteSets, TLC

\* ---------------------------------------------------------------- bounds
NumSamples == 2
MaxRuns == 2
NumCandidates == 2

\* ------------------------------------------------------- optional values
None == <<>>
Some(v) == <<v>>
IsNone(x) == x = <<>>
Val(x) == x[1]

\* ------------------------------------------------------- ordered dicts
DictKeys(d) == {d[k][1] : k \in 1..Len(d)}
DictPos(d, key) == CHOOSE k \in 1..Len(d) : d[k][1] = key
\* dict.get(key, None)
DictGet(d, key) == IF key \in DictKeys(d) THEN Some(d[DictPos(d, key)][2]) ELSE None
\* d[key] = v : an existing key keeps its position, a new key is appended
DictSet(d, key, v) ==
    IF key \in DictKeys(d)
    THEN [d EXCEPT ![DictPos(d, key)] = <<key, v>>]
    ELSE Append(d, <<key, v>>)
\* list(d.values())
DictValues(d) == [k \in 1..Len(d) |-> d[k][2]]

\* ------------------------------------------------- external collaborators
PluginNames == {"p1", "p2"}
\* what a captioning engine returns for n_captions=NumCandidates
CaptionOutputs == {[k \in 1..NumCandidates |-> IF k % 2 = 1 THEN "g1" ELSE "g2"]}
\* what a plugin engine can return
PluginOutputs == {"det"}
\* what postprocess_caption(lm.best(prompt)) can return
Summaries == {"sum"}
\* what the hallucination metric can store: <<hallucinated_object_count, object_count>>
HallucinationOutcomes == {<<0, 0>>, <<1, 2>>}

\* get_prompt_for_candidates(captions, prompt=prompt, plugin_outputs=values):
\* the prompt text is determined by the caption list and the plugin values
get_prompt_for_candidates(captions, plugin_values) ==
    [captions |-> captions, plugin_outputs |-> plugin_values]

\* ---------------------------------------------------------------- inputs
References == <<"r1", "r2">>
OldPrompt == get_prompt_for_candidates(<<"o1">>, <<>>)

FreshSample(i) ==
    [image_path |-> i, references |-> References,
     candidates |-> None, baseline |-> None, plugin_outputs |-> None,
     candidate_summary |-> None, candidate_summary_prompt |-> None,
     reference_summary |-> None, reference_summary_prompt |-> None,
     scores |-> <<>>, hallucinated_object_count |-> None, object_count |-> None]

\* every stage-owned field already present, baseline = candidates[0]
FullSample(i) ==
    [FreshSample(i) EXCEPT
        !.candidates = Some(<<"o1", "o2", "o3">>), !.baseline = Some("o1"),
        !.plugin_outputs = Some(<<<<"p1", "old">>, <<"p2", "old">>>>),
        !.candidate_summary = Some("osum"), !.candidate_summary_prompt = Some(OldPrompt),
        !.reference_summary = Some("osum"), !.reference_summary_prompt = Some(OldPrompt)]

\* a baseline without candidates, the output of the second plugin only, one
\* summary only
StaleSample(i) ==
    [FreshSample(i) EXCEPT
        !.baseline = Some("o2"),
        !.plugin_outputs = Some(<<<<"p2", "old">>>>),
        !.candidate_summary = Some("osum"), !.candidate_summary_prompt = Some(OldPrompt)]

SampleShapes(i) == {FreshSample(i), FullSample(i), StaleSample(i)}

InputDatasets ==
    {ds \in [1..NumSamples -> UNION {SampleShapes(i) : i \in 1..NumSamples}] :
        \A i \in 1..NumSamples : ds[i] \in SampleShapes(i)}

PluginOptions == {<<>>, <<"p1", "p2">>}

\* the root JSON value of the dataset file: a list of samples, an object
\* with or without the key "samples", or a (non-empty) string, a number, null
ListRoots == {"list", "object_with_samples"}
ScalarRoots == {"string", "number", "null"}
RootKinds == ListRoots \cup {"object_without_samples"} \cup ScalarRoots

\* the dataset files: every dataset as a list, the dataset of fresh samples
\* as {"samples": [...]}, and the roots that hold no sample list
InputFiles ==
    {<<"list", ds>> : ds \in InputDatasets}
    \cup {<<"object_with_samples", [i \in 1..NumSamples |-> FreshSample(i)]>>}
    \cup {<<r, <<>>>> : r \in RootKinds \ ListRoots}

Options ==
    [plugin : PluginOptions,
     overwrite_candidates : BOOLEAN,
     overwrite_candidate_summaries : BOOLEAN]

\* ----------------------------------------------------------------- files
Absent == [st |-> "absent", data |-> <<>>]
Partial == [st |-> "partial", data |-> <<>>]
Complete(d) == [st |-> "complete", data |-> d]

\* ----------------------------------------------------------------- state
VARIABLES
    root,       \* dataset_json_path: the kind of the root JSON value
    inFile,     \* dataset_json_path: the samples of the input dataset
    opts,       \* the command line: plugin, overwrite flags
    tmpFile,    \* <output_json_path>.tmp
    outFile,    \* output_json_path
    run,        \* number of the current invocation of the command
    pc,         \* position of the current invocation in evaluate_dataset
    samples,    \* local variable samples
    idx,        \* position of a `for sample in samples` loop
    pidx,       \* position of `for plugin_name in plugin`
    overwrite,  \* local variable overwrite_candidate_summaries
    captioner,  \* local variable captioner: is an engine bound to it
    pl,         \* local variable pl: the plugin whose engine it holds, or None
    lm,         \* local variable lm: is an engine bound to it
    metrics,    \* local variable metrics
    err,        \* how the current invocation ended, if it ended early
    calls,      \* history: engine calls made by the current invocation
    saved,      \* history: checkpoints completed by the current invocation
    ckptCalls,  \* history: calls at the time of the last completed checkpoint
    prevDone,   \* history: ckptCalls of the previous invocation
    wrote       \* history: the files the current invocation has opened for writing

vars == <<root, inFile, opts, tmpFile, outFile, run, pc, samples, idx, pidx, overwrite,
          captioner, pl, lm, metrics, err, calls, saved, ckptCalls, prevDone, wrote>>

input == <<root, inFile>>
disk == <<input, tmpFile, outFile>>
locals == <<samples, idx, pidx, overwrite, captioner, pl, lm, metrics>>
history == <<calls, saved, ckptCalls, prevDone, wrote>>

N == Len(samples)
NoErr == [kind |-> "none", stage |-> "", sample |-> 0]
Err(kind, stage, i) == [kind |-> kind, stage |-> stage, sample |-> i]
Call(i, field, key) == <<i, field, key>>

Init ==
    /\ \E f \in InputFiles : root = f[1] /\ inFile = f[2]
    /\ opts \in Options
    /\ tmpFile = Absent
    /\ outFile = Absent
    /\ run = 1
    /\ pc = "load"
    /\ samples = <<>>
    /\ idx = 0
    /\ pidx = 1
    /\ overwrite = opts.overwrite_candidate_summaries
    /\ captioner = FALSE
    /\ pl = None
    /\ lm = FALSE
    /\ metrics = None
    /\ err = NoErr
    /\ calls = {}
    /\ saved = <<>>
    /\ ckptCalls = {}
    /\ prevDone = {}
    /\ wrote = {}

\* ------------------------------------------------------------ 1. loading
\* a variant that checkpoints the samples as soon as they are loaded
Load_WritesCheckpoint ==
    /\ pc = "load"
    /\ root # "object_without_samples"
    /\ samples' = inFile
    /\ tmpFile' = Complete(inFile)
    /\ wrote' = wrote \cup {"tmp"}
    /\ pc' = "new_captioner"
    /\ UNCHANGED <<input, outFile, opts, run, idx, pidx, overwrite, captioner, pl, lm,
                   metrics, err, calls, saved, ckptCalls, prevDone>>

\* json.load of dataset_json_path, whatever checkpoint or output exists:
\* a dict is replaced by its "samples", any other value is kept as it is
Load ==
    /\ pc = "load"
    /\ root # "object_without_samples"
    /\ samples' = inFile
    /\ pc' = "new_captioner"
    /\ UNCHANGED <<disk, opts, run, idx, pidx, overwrite, captioner, pl, lm, metrics,
                   err, history>>

\* the run ends with an exception: nothing after the raising statement runs
Abort(kind, stage, i) ==
    /\ pc' = "aborted"
    /\ err' = Err(kind, stage, i)

\* samples["samples"] raises KeyError on a dict without that key
LoadFail ==
    /\ pc = "load"
    /\ root = "object_without_samples"
    /\ Abort("KeyError", "load", 0)
    /\ UNCHANGED <<disk, opts, run, locals, history>>

\* --------------------------------------------------- 2. candidate captions
NewCaptioner ==
    /\ pc = "new_captioner"
    /\ captioner' = TRUE
    /\ idx' = 1
    /\ pc' = "candidates"
    /\ UNCHANGED <<disk, opts, run, samples, pidx, overwrite, pl, lm, metrics, err, history>>

NewCaptionerFail ==
    /\ pc = "new_captioner"
    /\ Abort("EngineLoad", "candidates", 0)
    /\ UNCHANGED <<disk, opts, run, locals, history>>

\* the populated-field test dropped: every sample is captioned again
NeedsCandidates_Always(s) == TRUE
NeedsCandidates(s) == IsNone(s.candidates) \/ opts.overwrite_candidates
NeedsBaseline(s) == IsNone(s.baseline) \/ opts.overwrite_candidates

\* one iteration of the loop: the captioner call, if any, returned caps
CandidatesBody(s, caps) ==
    LET s1 == IF NeedsCandidates(s) THEN [s EXCEPT !.candidates = Some(caps)] ELSE s
    IN  IF NeedsBaseline(s1) THEN [s1 EXCEPT !.baseline = Some(Val(s1.candidates)[1])] ELSE s1

CandidatesStep ==
    /\ pc = "candidates"
    /\ root \in ListRoots
    /\ idx <= N
    /\ \E caps \in CaptionOutputs :
          samples' = [samples EXCEPT ![idx] = CandidatesBody(samples[idx], caps)]
    /\ calls' = IF NeedsCandidates(samples[idx])
                THEN calls \cup {Call(idx, "candidates", "")} ELSE calls
    /\ idx' = idx + 1
    /\ UNCHANGED <<disk, opts, run, pc, pidx, overwrite, captioner, pl, lm, metrics, err,
                   saved, ckptCalls, prevDone, wrote>>

\* the captioner raises on this sample
CandidatesFail ==
    /\ pc = "candidates"
    /\ root \in ListRoots
    /\ idx <= N
    /\ NeedsCandidates(samples[idx])
    /\ Abort("EngineInference", "candidates", idx)
    /\ calls' = calls \cup {Call(idx, "candidates", "")}
    /\ UNCHANGED <<disk, opts, run, locals, saved, ckptCalls, prevDone, wrote>>

\* `for sample in tqdm.tqdm(samples)` over a number or null raises TypeError,
\* and sample.get on the first character of a string raises AttributeError
CandidatesNotIterable ==
    /\ pc = "candidates"
    /\ root \in ScalarRoots
    /\ Abort(IF root = "string" THEN "AttributeError" ELSE "TypeError", "candidates", 0)
    /\ UNCHANGED <<disk, opts, run, locals, history>>

CandidatesDone ==
    /\ pc = "candidates"
    /\ root \in ListRoots
    /\ idx > N
    /\ pc' = "save1"
    /\ UNCHANGED <<disk, opts, run, locals, err, history>>

\* ------------------------------------------------------------ checkpoints
\* _save_json_tmp_file is called at seven places of evaluate_dataset
SavePoints == {"save1", "save2", "save3", "save4", "save5", "save6", "save7"}
DumpPoint ==
    [save1 |-> "dump1", save2 |-> "dump2", save3 |-> "dump3", save4 |-> "dump4",
     save5 |-> "dump5", save6 |-> "dump6", save7 |-> "dump7"]
DumpPoints == {DumpPoint[p] : p \in SavePoints}
AfterSave ==
    [dump1 |-> "plugins", dump2 |-> "new_lm", dump3 |-> "base_metrics", dump4 |-> "mauve",
     dump5 |-> "clip_recall", dump6 |-> "content_recall", dump7 |-> "aggregate"]

\* open(f"{output_json_path}.tmp", "w"): the file is created or truncated
SaveOpen ==
    /\ pc \in SavePoints
    /\ tmpFile' = Partial
    /\ wrote' = wrote \cup {"tmp"}
    /\ pc' = DumpPoint[pc]
    /\ UNCHANGED <<input, outFile, opts, run, locals, err, calls, saved, ckptCalls, prevDone>>

\* json.dump(samples, f) and the close of the file
SaveDump ==
    /\ pc \in DumpPoints
    /\ tmpFile' = Complete(samples)
    /\ saved' = Append(saved, pc)
    /\ ckptCalls' = calls
    /\ pc' = AfterSave[pc]
    /\ UNCHANGED <<input, outFile, opts, run, locals, err, calls, prevDone, wrote>>

\* ------------------------------------------------------ 2.1 plugin outputs
\* for plugin_name in plugin: construct the plugin
\* the requested plugins taken from the last to the first
NewPlugin_Reversed ==
    /\ pc = "plugins"
    /\ pidx <= Len(opts.plugin)
    /\ pl' = Some(opts.plugin[Len(opts.plugin) - pidx + 1])
    /\ idx' = 1
    /\ pc' = "plugin_outputs"
    /\ UNCHANGED <<disk, opts, run, samples, pidx, overwrite, captioner, lm, metrics, err,
                   history>>

NewPlugin ==
    /\ pc = "plugins"
    /\ pidx <= Len(opts.plugin)
    /\ pl' = Some(opts.plugin[pidx])
    /\ idx' = 1
    /\ pc' = "plugin_outputs"
    /\ UNCHANGED <<disk, opts, run, samples, pidx, overwrite, captioner, lm, metrics, err,
                   history>>

NewPluginFail ==
    /\ pc = "plugins"
    /\ pidx <= Len(opts.plugin)
    /\ Abort("EngineLoad", "plugins", 0)
    /\ UNCHANGED <<disk, opts, run, locals, history>>

\* the checkpoint call after the plugin loop left out
PluginsDone_NoSave ==
    /\ pc = "plugins"
    /\ pidx > Len(opts.plugin)
    /\ pc' = "new_lm"
    /\ UNCHANGED <<disk, opts, run, locals, err, history>>

PluginsDone ==
    /\ pc = "plugins"
    /\ pidx > Len(opts.plugin)
    /\ pc' = "save2"
    /\ UNCHANGED <<disk, opts, run, locals, err, history>>

\* sample.get("plugin_outputs", None) is None -> sample["plugin_outputs"] = {}
WithPluginOutputs(s) ==
    IF IsNone(s.plugin_outputs) THEN [s EXCEPT !.plugin_outputs = Some(<<>>)] ELSE s

\* the presence test alone: overwrite_candidates does not reach the plugins
NeedsPlugin_PresenceOnly(s, name) ==
    IsNone(DictGet(Val(WithPluginOutputs(s).plugin_outputs), name))
NeedsPlugin(s, name) ==
    \/ IsNone(DictGet(Val(WithPluginOutputs(s).plugin_outputs), name))
    \/ opts.overwrite_candidates

PluginBody(s, name, out) ==
    LET s1 == WithPluginOutputs(s)
    IN  IF NeedsPlugin(s, name)
        THEN [s1 EXCEPT !.plugin_outputs = Some(DictSet(Val(s1.plugin_outputs), name, out))]
        ELSE s1

PluginStep ==
    /\ pc = "plugin_outputs"
    /\ idx <= N
    /\ \E out \in PluginOutputs :
          samples' = [samples EXCEPT ![idx] = PluginBody(samples[idx], Val(pl), out)]
    /\ calls' = IF NeedsPlugin(samples[idx], Val(pl))
                THEN calls \cup {Call(idx, "plugin_outputs", Val(pl))} ELSE calls
    /\ idx' = idx + 1
    /\ UNCHANGED <<disk, opts, run, pc, pidx, overwrite, captioner, pl, lm, metrics, err,
                   saved, ckptCalls, prevDone, wrote>>

\* the plugin raises on this sample: plugin_outputs = {} may already be set
PluginFail ==
    /\ pc = "plugin_outputs"
    /\ idx <= N
    /\ NeedsPlugin(samples[idx], Val(pl))
    /\ samples' = [samples EXCEPT ![idx] = WithPluginOutputs(samples[idx])]
    /\ Abort("EngineInference", "plugins", idx)
    /\ calls' = calls \cup {Call(idx, "plugin_outputs", Val(pl))}
    /\ UNCHANGED <<disk, opts, run, idx, pidx, overwrite, captioner, pl, lm, metrics,
                   saved, ckptCalls, prevDone, wrote>>

PluginLoopDone ==
    /\ pc = "plugin_outputs"
    /\ idx > N
    /\ pidx' = pidx + 1
    /\ pc' = "plugins"
    /\ UNCHANGED <<disk, opts, run, samples, idx, overwrite, captioner, pl, lm, metrics, err,
                   history>>

\* ------------------------------------------------------------ 3. summaries
\* the LM is constructed, then
\* overwrite_candidate_summaries = overwrite_candidate_summaries or overwrite_candidates
\* the candidates flag not folded into the summaries flag
OverwriteSummaries_Independent(o) == o.overwrite_candidate_summaries
OverwriteSummaries(o) == o.overwrite_candidate_summaries \/ o.overwrite_candidates

NewLm ==
    /\ pc = "new_lm"
    /\ lm' = TRUE
    /\ overwrite' = OverwriteSummaries(opts)
    /\ idx' = 1
    /\ pc' = "candidate_summary"
    /\ UNCHANGED <<disk, opts, run, samples, pidx, captioner, pl, metrics, err, history>>

NewLmFail ==
    /\ pc = "new_lm"
    /\ Abort("EngineLoad", "summaries", 0)
    /\ UNCHANGED <<disk, opts, run, locals, history>>

\* list(sample.get("plugin_outputs", {}).values())
PluginValues(s) ==
    IF IsNone(s.plugin_outputs) THEN <<>> ELSE DictValues(Val(s.plugin_outputs))

NeedsCandidateSummary(s) == IsNone(s.candidate_summary) \/ overwrite
\* the populated-field test dropped for the reference summary
NeedsReferenceSummary_Always(s) == TRUE
NeedsReferenceSummary(s) == IsNone(s.reference_summary) \/ overwrite

\* the prompt built from the candidates alone, the plugin outputs left out
CandidateSummaryBody_NoPlugins(s, out) ==
    IF NeedsCandidateSummary(s)
    THEN [s EXCEPT
            !.candidate_summary_prompt =
                Some(get_prompt_for_candidates(Val(s.candidates), <<>>)),
            !.candidate_summary = Some(out)]
    ELSE s

CandidateSummaryBody(s, out) ==
    IF NeedsCandidateSummary(s)
    THEN [s EXCEPT
            !.candidate_summary_prompt =
                Some(get_prompt_for_candidates(Val(s.candidates), PluginValues(s))),
            !.candidate_summary = Some(out)]
    ELSE s

\* the candidate block copied without renaming the key: the reference
\* prompt is built from the candidates
ReferenceSummaryBody_FromCandidates(s, out) ==
    IF NeedsReferenceSummary(s)
    THEN [s EXCEPT
            !.reference_summary_prompt =
                Some(get_prompt_for_candidates(Val(s.candidates), PluginValues(s))),
            !.reference_summary = Some(out)]
    ELSE s

ReferenceSummaryBody(s, out) ==
    IF NeedsReferenceSummary(s)
    THEN [s EXCEPT
            !.reference_summary_prompt =
                Some(get_prompt_for_candidates(s.references, PluginValues(s))),
            !.reference_summary = Some(out)]
    ELSE s

CandidateSummaryStep ==
    /\ pc = "candidate_summary"
    /\ idx <= N
    /\ \E out \in Summaries :
          samples' = [samples EXCEPT ![idx] = CandidateSummaryBody(samples[idx], out)]
    /\ calls' = IF NeedsCandidateSummary(samples[idx])
                THEN calls \cup {Call(idx, "candidate_summary", "")} ELSE calls
    /\ pc' = "reference_summary"
    /\ UNCHANGED <<disk, opts, run, idx, pidx, overwrite, captioner, pl, lm, metrics, err,
                   saved, ckptCalls, prevDone, wrote>>

\* a variant that saves the partial results when lm.best raises
CandidateSummaryFail_Checkpoints ==
    /\ pc = "candidate_summary"
    /\ idx <= N
    /\ NeedsCandidateSummary(samples[idx])
    /\ samples' = [samples EXCEPT ![idx].candidate_summary_prompt =
            Some(get_prompt_for_candidates(Val(samples[idx].candidates),
                                           PluginValues(samples[idx])))]
    /\ tmpFile' = Complete(samples')
    /\ Abort("EngineInference", "summaries", idx)
    /\ calls' = calls \cup {Call(idx, "candidate_summary", "")}
    /\ UNCHANGED <<input, outFile, opts, run, idx, pidx, overwrite, captioner, pl, lm,
                   metrics, saved, ckptCalls, prevDone, wrote>>

\* lm.best raises: the prompt of this sample is already stored
CandidateSummaryFail ==
    /\ pc = "candidate_summary"
    /\ idx <= N
    /\ NeedsCandidateSummary(samples[idx])
    /\ samples' = [samples EXCEPT ![idx].candidate_summary_prompt =
            Some(get_prompt_for_candidates(Val(samples[idx].candidates),
                                           PluginValues(samples[idx])))]
    /\ Abort("EngineInference", "summaries", idx)
    /\ calls' = calls \cup {Call(idx, "candidate_summary", "")}
    /\ UNCHANGED <<disk, opts, run, idx, pidx, overwrite, captioner, pl, lm, metrics,
                   saved, ckptCalls, prevDone, wrote>>

ReferenceSummaryStep ==
    /\ pc = "reference_summary"
    /\ \E out \in Summaries :
          samples' = [samples EXCEPT ![idx] = ReferenceSummaryBody(samples[idx], out)]
    /\ calls' = IF NeedsReferenceSummary(samples[idx])
                THEN calls \cup {Call(idx, "reference_summary", "")} ELSE calls
    /\ idx' = idx + 1
    /\ pc' = "candidate_summary"
    /\ UNCHANGED <<disk, opts, run, pidx, overwrite, captioner, pl, lm, metrics, err,
                   saved, ckptCalls, prevDone, wrote>>

ReferenceSummaryFail ==
    /\ pc = "reference_summary"
    /\ NeedsReferenceSummary(samples[idx])
    /\ samples' = [samples EXCEPT ![idx].reference_summary_prompt =
            Some(get_prompt_for_candidates(samples[idx].references,
                                           PluginValues(samples[idx])))]
    /\ Abort("EngineInference", "summaries", idx)
    /\ calls' = calls \cup {Call(idx, "reference_summary", "")}
    /\ UNCHANGED <<disk, opts, run, idx, pidx, overwrite, captioner, pl, lm, metrics,
                   saved, ckptCalls, prevDone, wrote>>

SummariesDone ==
    /\ pc = "candidate_summary"
    /\ idx > N
    /\ pc' = "save3"
    /\ UNCHANGED <<disk, opts, run, locals, err, history>>

\* ------------------------------------------------------- 4.-9. the metrics
\* compute_and_add_*(samples, ...) of cbc.metrics: each returns the samples
\* with its own keys added under scores, if not already computed
MetricAfter ==
    [base_metrics |-> "save4", mauve |-> "save5", clip_recall |-> "save6",
     content_recall |-> "self_bleu", self_bleu |-> "hallucinations",
     hallucinations |-> "save7"]
ScoreStages == {"base_metrics", "mauve", "clip_recall", "content_recall", "self_bleu"}
MetricStages == ScoreStages \cup {"hallucinations"}

\* the keys of scores that each metric adds; of the keys of one form (a
\* metric for each of candidate_summary, reference_summary and baseline) the
\* model keeps some, and a nested key is written as its path
StageKeys ==
    [base_metrics |-> {"candidate_summary_bleu_1", "reference_summary_cider",
                       "baseline_rouge"},
     mauve |-> {"candidate_summary_mauve"},
     clip_recall |-> {"candidate_summary_clip_recall_rank"},
     content_recall |-> {"content_recall.candidate_summary_noun_recall"},
     self_bleu |-> {"self_bleu.candidates"},
     hallucinations |-> {"hungarian_matching_score"}]
AllScoreKeys == UNION {StageKeys[st] : st \in MetricStages}
\* the score a metric can compute
ScoreOutputs == {4}

\* scores with the keys of a stage added where they are missing
AddScores(scores, keys, v) ==
    [k \in (DOMAIN scores) \cup keys |-> IF k \in DOMAIN scores THEN scores[k] ELSE v]

compute_and_add(ss, stage, v) ==
    [i \in 1..Len(ss) |-> [ss[i] EXCEPT !.scores = AddScores(@, StageKeys[stage], v)]]

ComputeMetric ==
    /\ pc \in ScoreStages
    /\ \E v \in ScoreOutputs : samples' = compute_and_add(samples, pc, v)
    /\ pc' = MetricAfter[pc]
    /\ UNCHANGED <<disk, opts, run, idx, pidx, overwrite, captioner, pl, lm, metrics, err,
                   history>>

\* compute_and_add_object_hallucinations: the two counters of every sample
compute_and_add_object_hallucinations(ss, counts, v) ==
    [i \in 1..Len(ss) |->
        [ss[i] EXCEPT
            !.scores = AddScores(@, StageKeys["hallucinations"], v),
            !.hallucinated_object_count = IF IsNone(@) THEN Some(counts[i][1]) ELSE @,
            !.object_count = IF IsNone(@) THEN Some(counts[i][2]) ELSE @]]

ComputeHallucinations ==
    /\ pc = "hallucinations"
    /\ \E counts \in [1..N -> HallucinationOutcomes], v \in ScoreOutputs :
          samples' = compute_and_add_object_hallucinations(samples, counts, v)
    /\ pc' = MetricAfter[pc]
    /\ UNCHANGED <<disk, opts, run, idx, pidx, overwrite, captioner, pl, lm, metrics, err,
                   history>>

\* a metric raises
MetricFail ==
    /\ pc \in MetricStages
    /\ Abort("MetricError", pc, 0)
    /\ UNCHANGED <<disk, opts, run, locals, history>>

\* ------------------------------------------------------------ aggregation
RECURSIVE SumOver(_, _, _)
\* sum of f[i] for i in lo..hi
SumOver(f, lo, hi) == IF lo > hi THEN 0 ELSE f[lo] + SumOver(f, lo + 1, hi)

\* the dict display of the report is evaluated top to bottom: first the
\* means of the groups standard, clip_recall and content_recall
MeanMetrics ==
    <<[group |-> "standard", name |-> "candidate_summary_bleu_1",
       key |-> "candidate_summary_bleu_1"],
      [group |-> "standard", name |-> "reference_summary_cider",
       key |-> "reference_summary_cider"],
      [group |-> "standard", name |-> "baseline_rouge", key |-> "baseline_rouge"],
      [group |-> "standard", name |-> "candidate_summary_mauve",
       key |-> "candidate_summary_mauve"],
      [group |-> "standard", name |-> "candidate_self_bleu", key |-> "self_bleu.candidates"],
      [group |-> "clip_recall", name |-> "candidate_summary_clip_recall_rank",
       key |-> "candidate_summary_clip_recall_rank"],
      [group |-> "content_recall", name |-> "candidate_summary_noun_recall",
       key |-> "content_recall.candidate_summary_noun_recall"]>>
HungarianKey == "hungarian_matching_score"

\* float(np.mean([s["scores"][key] for s in samples])), a quotient kept as
\* <<numerator, denominator>>
\* the first sample left out of the sum
MeanOf_SkipFirst(ss, key) ==
    <<SumOver([i \in 1..Len(ss) |-> ss[i].scores[key]], 2, Len(ss)), Len(ss)>>
MeanOf(ss, key) ==
    <<SumOver([i \in 1..Len(ss) |-> ss[i].scores[key]], 1, Len(ss)), Len(ss)>>

HallucinatedTotal(ss) ==
    SumOver([i \in 1..Len(ss) |-> Val(ss[i].hallucinated_object_count)], 1, Len(ss))
\* the number of samples taken for the number of objects
ObjectTotal_SampleCount(ss) == Len(ss)
ObjectTotal(ss) == SumOver([i \in 1..Len(ss) |-> Val(ss[i].object_count)], 1, Len(ss))
\* the hallucinated objects summed instead of the captions counted
HallucinatedCaptions_Objects(ss) == HallucinatedTotal(ss)
HallucinatedCaptions(ss) ==
    Cardinality({i \in 1..Len(ss) : Val(ss[i].hallucinated_object_count) > 0})

HasKey(ss, key) == \A i \in 1..Len(ss) : key \in DOMAIN ss[i].scores
\* the positions in MeanMetrics of the keys that some sample lacks
MissingMeans(ss) == {k \in 1..Len(MeanMetrics) : ~HasKey(ss, MeanMetrics[k].key)}
Min(S) == CHOOSE x \in S : \A y \in S : x <= y

\* a key read by _extract_and_aggregate_metrics is missing in some sample
MissingKey(ss) ==
    \/ MissingMeans(ss) # {}
    \/ ~HasKey(ss, HungarianKey)
    \/ \E i \in 1..Len(ss) :
          IsNone(ss[i].hallucinated_object_count) \/ IsNone(ss[i].object_count)

\* a quotient of the report has denominator 0.0
\* only the empty sample list taken for a zero denominator
ZeroDenominator_EmptyOnly(ss) == Len(ss) = 0
ZeroDenominator(ss) == Len(ss) = 0 \/ ObjectTotal(ss) = 0

\* the exception that ends the evaluation of the report, if any: a KeyError
\* carries the missing key and nothing else
NoAggError == [kind |-> "none", key |-> None, sample |-> None]
KeyError(key) == [kind |-> "KeyError", key |-> Some(key), sample |-> None]
AggError(ss) ==
    IF MissingMeans(ss) # {}
        THEN KeyError(MeanMetrics[Min(MissingMeans(ss))].key)
    ELSE IF \E i \in 1..Len(ss) : IsNone(ss[i].hallucinated_object_count)
        THEN KeyError("hallucinated_object_count")
    ELSE IF \E i \in 1..Len(ss) : IsNone(ss[i].object_count)
        THEN KeyError("object_count")
    ELSE IF ZeroDenominator(ss)
        THEN [kind |-> "ZeroDivisionError", key |-> None, sample |-> None]
    ELSE IF ~HasKey(ss, HungarianKey)
        THEN KeyError(HungarianKey)
    ELSE NoAggError

GroupNames(g) == {MeanMetrics[k].name : k \in {j \in 1..Len(MeanMetrics) : MeanMetrics[j].group = g}}
KeyOfMetric(g, n) ==
    MeanMetrics[CHOOSE k \in 1..Len(MeanMetrics) :
                    MeanMetrics[k].group = g /\ MeanMetrics[k].name = n].key
MeanGroup(ss, g) == [n \in GroupNames(g) |-> MeanOf(ss, KeyOfMetric(g, n))]

\* the report
_extract_and_aggregate_metrics(ss) ==
    [standard |-> MeanGroup(ss, "standard"),
     clip_recall |-> MeanGroup(ss, "clip_recall"),
     content_recall |-> MeanGroup(ss, "content_recall"),
     hallucinations |->
        [hallucinated_objects_percentage |-> <<HallucinatedTotal(ss), ObjectTotal(ss)>>,
         hallucinated_captions_percentage |-> <<HallucinatedCaptions(ss), Len(ss)>>,
         average_hungarian_matching_score |-> MeanOf(ss, HungarianKey)]]

Aggregate ==
    /\ pc = "aggregate"
    /\ AggError(samples) = NoAggError
    /\ metrics' = Some(_extract_and_aggregate_metrics(samples))
    /\ pc' = "open_output"
    /\ UNCHANGED <<disk, opts, run, samples, idx, pidx, overwrite, captioner, pl, lm, err,
                   history>>

AggregateFail ==
    /\ pc = "aggregate"
    /\ AggError(samples) # NoAggError
    /\ Abort(AggError(samples).kind, "aggregate", 0)
    /\ UNCHANGED <<disk, opts, run, locals, history>>

\* ------------------------------------------------------- the final output
\* the checkpoint removed before the output is written
OutputOpen_RemovesTmp ==
    /\ pc = "open_output"
    /\ outFile' = Partial
    /\ tmpFile' = Absent
    /\ wrote' = wrote \cup {"out"}
    /\ pc' = "dump_output"
    /\ UNCHANGED <<input, opts, run, locals, err, calls, saved, ckptCalls, prevDone>>

\* open(output_json_path, "w")
OutputOpen ==
    /\ pc = "open_output"
    /\ outFile' = Partial
    /\ wrote' = wrote \cup {"out"}
    /\ pc' = "dump_output"
    /\ UNCHANGED <<input, tmpFile, opts, run, locals, err, calls, saved, ckptCalls,
                   prevDone>>

\* json.dump({"samples": samples, "metrics": metrics}, f, indent=2) and the close
OutputDump ==
    /\ pc = "dump_output"
    /\ outFile' = Complete([samples |-> samples, metrics |-> Val(metrics)])
    /\ pc' = "remove_tmp"
    /\ UNCHANGED <<input, tmpFile, opts, run, locals, err, history>>

\* the write of the final output raises (an OSError of the file system)
OutputFail ==
    /\ pc = "dump_output"
    /\ Abort("OSError", "dump_output", 0)
    /\ UNCHANGED <<disk, opts, run, locals, history>>

\* if os.path.exists(tmp): os.remove(tmp)
RemoveTmp ==
    /\ pc = "remove_tmp"
    /\ tmpFile' = IF tmpFile.st # "absent" THEN Absent ELSE tmpFile
    /\ pc' = "done"
    /\ UNCHANGED <<input, outFile, opts, run, locals, err, history>>

\* ------------------------------------------- interruption and re-invocation
Ended == {"done", "aborted", "killed"}

\* the process is terminated from outside: its memory is gone, the files stay
Kill ==
    /\ pc \notin Ended
    /\ pc' = "killed"
    /\ err' = Err("Killed", pc, 0)
    /\ samples' = <<>>
    /\ idx' = 0
    /\ pidx' = 1
    /\ overwrite' = opts.overwrite_candidate_summaries
    /\ captioner' = FALSE
    /\ pl' = None
    /\ lm' = FALSE
    /\ metrics' = None
    /\ UNCHANGED <<disk, opts, run, history>>

\* the same command is run again after a run that did not finish
Restart ==
    /\ pc \in {"aborted", "killed"}
    /\ run < MaxRuns
    /\ run' = run + 1
    /\ pc' = "load"
    /\ err' = NoErr
    /\ samples' = <<>>
    /\ idx' = 0
    /\ pidx' = 1
    /\ overwrite' = opts.overwrite_candidate_summaries
    /\ captioner' = FALSE
    /\ pl' = None
    /\ lm' = FALSE
    /\ metrics' = None
    /\ calls' = {}
    /\ saved' = <<>>
    /\ ckptCalls' = {}
    /\ prevDone' = ckptCalls
    /\ wrote' = {}
    /\ UNCHANGED <<disk, opts>>

\* after a complete run without overwrite flags, the same command is run
\* with (a copy of) the output file {"samples": ..., "metrics": ...} as dataset
RerunOnOutput ==
    /\ pc = "done"
    /\ run < MaxRuns
    /\ ~opts.overwrite_candidates
    /\ ~opts.overwrite_candidate_summaries
    /\ outFile.st = "complete"
    /\ root' = "object_with_samples"
    /\ inFile' = outFile.data.samples
    /\ run' = run + 1
    /\ pc' = "load"
    /\ err' = NoErr
    /\ samples' = <<>>
    /\ idx' = 0
    /\ pidx' = 1
    /\ overwrite' = opts.overwrite_candidate_summaries
    /\ captioner' = FALSE
    /\ pl' = None
    /\ lm' = FALSE
    /\ metrics' = None
    /\ calls' = {}
    /\ saved' = <<>>
    /\ ckptCalls' = {}
    /\ prevDone' = {}
    /\ wrote' = {}
    /\ UNCHANGED <<tmpFile, outFile, opts>>

Next ==
    \/ Load
    \/ LoadFail
    \/ NewCaptioner
    \/ NewCaptionerFail
    \/ CandidatesStep
    \/ CandidatesFail
    \/ CandidatesNotIterable
    \/ CandidatesDone
    \/ SaveOpen
    \/ SaveDump
    \/ NewPlugin
    \/ NewPluginFail
    \/ PluginsDone
    \/ PluginStep
    \/ PluginFail
    \/ PluginLoopDone
    \/ NewLm
    \/ NewLmFail
    \/ CandidateSummaryStep
    \/ CandidateSummaryFail
    \/ ReferenceSummaryStep
    \/ ReferenceSummaryFail
    \/ SummariesDone
    \/ ComputeMetric
    \/ ComputeHallucinations
    \/ MetricFail
    \/ Aggregate
    \/ AggregateFail
    \/ OutputOpen
    \/ OutputDump
    \/ OutputFail
    \/ RemoveTmp
    \/ Kill
    \/ Restart
    \/ RerunOnOutput

Spec == Init /\ [][Next]_vars

\* --------------------------------- the aggregation on sample sets of its own
MaxAggSamples == 3
ScoreValues == {2, 4, 6}
CounterValues == {<<1, 4>>, <<0, 3>>, <<2, 5>>, <<0, 0>>}

\* a sample as the metrics leave it: every score of the sample is v, but
\* reference_summary_cider is v + 1, and the counters are c
ScoredSample(v, c) ==
    [FreshSample(0) EXCEPT
        !.scores = [k \in AllScoreKeys |->
                        IF k = "reference_summary_cider" THEN v + 1 ELSE v],
        !.hallucinated_object_count = Some(c[1]),
        !.object_count = Some(c[2])]
\* the sample with one key of scores removed
WithoutScore(s, key) == [s EXCEPT !.scores = [k \in (DOMAIN @) \ {key} |-> @[k]]]

AggSampleShapes ==
    {ScoredSample(v, c) : v \in ScoreValues, c \in CounterValues}
    \cup {WithoutScore(ScoredSample(2, <<1, 4>>), "reference_summary_cider"),
          WithoutScore(ScoredSample(2, <<1, 4>>), HungarianKey),
          WithoutScore(ScoredSample(2, <<0, 0>>), "reference_summary_cider"),
          WithoutScore(ScoredSample(2, <<0, 0>>), HungarianKey)}
AggInputs == UNION {[1..n -> AggSampleShapes] : n \in 0..MaxAggSamples}

\* evaluate_dataset at the call of _extract_and_aggregate_metrics(samples)
AggInit ==
    /\ root = "list"
    /\ inFile = <<>>
    /\ opts = [plugin |-> <<>>, overwrite_candidates |-> FALSE,
               overwrite_candidate_summaries |-> FALSE]
    /\ samples \in AggInputs
    /\ tmpFile = Complete(samples)
    /\ outFile = Absent
    /\ run = 1
    /\ pc = "aggregate"
    /\ idx = 0
    /\ pidx = 1
    /\ overwrite = FALSE
    /\ captioner = TRUE
    /\ pl = None
    /\ lm = TRUE
    /\ metrics = None
    /\ err = NoErr
    /\ calls = {}
    /\ saved = <<"dump1", "dump2", "dump3", "dump4", "dump5", "dump6", "dump7">>
    /\ ckptCalls = {}
    /\ prevDone = {}
    /\ wrote = {"tmp"}

AggNext ==
    \/ Aggregate
    \/ AggregateFail

AggSpec == AggInit /\ [][AggNext]_vars

\* evaluate_dataset from the call of _extract_and_aggregate_metrics to its end
FinalizeNext ==
    \/ Aggregate
    \/ AggregateFail
    \/ OutputOpen
    \/ OutputDump
    \/ OutputFail
    \/ RemoveTmp

FinalizeSpec == AggInit /\ [][FinalizeNext]_vars
\* ================================================================ claims
Loaded == pc \notin {"load", "killed"}
NoOverwrite == ~opts.overwrite_candidates /\ ~opts.overwrite_candidate_summaries
Requested == {opts.plugin[k] : k \in 1..Len(opts.plugin)}
\* sample.plugin_outputs[name], None when the mapping or the key is missing
PluginOutputOf(s, name) ==
    IF IsNone(s.plugin_outputs) THEN None ELSE DictGet(Val(s.plugin_outputs), name)
SummariesStageDone == pc \in {"save3", "dump3"}

C2_RestartSkipsCheckpointedWork == run > 1 => calls \cap prevDone = {}
\* ---- what an uninterrupted run on inFile with opts leaves in the output
OldPlugins(a) == IF IsNone(a.plugin_outputs) THEN <<>> ELSE Val(a.plugin_outputs)
\* the requested plugins that the input sample has no output of, in order
MissingPlugins(a) ==
    LET IsMissing(name) == name \notin DictKeys(OldPlugins(a))
    IN  SelectSeq(opts.plugin, IsMissing)

IsExpectedSample(a, b) ==
    LET owc == opts.overwrite_candidates
        ows == opts.overwrite_candidate_summaries \/ opts.overwrite_candidates
        old == OldPlugins(a)
        new == MissingPlugins(a)
    IN  /\ b.image_path = a.image_path
        /\ b.references = a.references
        /\ ~IsNone(b.candidates)
        /\ IF IsNone(a.candidates) \/ owc
           THEN Val(b.candidates) \in CaptionOutputs
           ELSE b.candidates = a.candidates
        /\ b.baseline = IF IsNone(a.baseline) \/ owc
                        THEN Some(Val(b.candidates)[1]) ELSE a.baseline
        /\ IF opts.plugin = <<>>
           THEN b.plugin_outputs = a.plugin_outputs
           ELSE /\ ~IsNone(b.plugin_outputs)
                /\ Len(Val(b.plugin_outputs)) = Len(old) + Len(new)
                /\ \A k \in 1..Len(old) :
                      /\ Val(b.plugin_outputs)[k][1] = old[k][1]
                      /\ IF owc /\ old[k][1] \in Requested
                         THEN Val(b.plugin_outputs)[k][2] \in PluginOutputs
                         ELSE Val(b.plugin_outputs)[k][2] = old[k][2]
                /\ \A k \in 1..Len(new) :
                      /\ Val(b.plugin_outputs)[Len(old) + k][1] = new[k]
                      /\ Val(b.plugin_outputs)[Len(old) + k][2] \in PluginOutputs
        /\ IF IsNone(a.candidate_summary) \/ ows
           THEN /\ ~IsNone(b.candidate_summary)
                /\ Val(b.candidate_summary) \in Summaries
                /\ b.candidate_summary_prompt =
                      Some(get_prompt_for_candidates(Val(b.candidates), PluginValues(b)))
           ELSE /\ b.candidate_summary = a.candidate_summary
                /\ b.candidate_summary_prompt = a.candidate_summary_prompt
        /\ IF IsNone(a.reference_summary) \/ ows
           THEN /\ ~IsNone(b.reference_summary)
                /\ Val(b.reference_summary) \in Summaries
                /\ b.reference_summary_prompt =
                      Some(get_prompt_for_candidates(b.references, PluginValues(b)))
           ELSE /\ b.reference_summary = a.reference_summary
                /\ b.reference_summary_prompt = a.reference_summary_prompt
        /\ DOMAIN b.scores = AllScoreKeys
        /\ \A k \in AllScoreKeys : b.scores[k] \in ScoreOutputs
        /\ ~IsNone(b.hallucinated_object_count)
        /\ ~IsNone(b.object_count)
        /\ <<Val(b.hallucinated_object_count), Val(b.object_count)>> \in HallucinationOutcomes

IsUninterruptedResult(r) ==
    /\ Len(r.samples) = Len(inFile)
    /\ \A i \in 1..Len(inFile) : IsExpectedSample(inFile[i], r.samples[i])
    /\ r.metrics = _extract_and_aggregate_metrics(r.samples)

\* C3: when a run was interrupted and the command is run again, the final
\* output file (samples and metrics report) is a final output of an
\* uninterrupted run on the same input with the same options; it is the
\* same for a first run that is not interrupted.
C3_RestartedRunGivesUninterruptedResult ==
    pc = "done" =>
        /\ outFile.st = "complete"
        /\ IsUninterruptedResult(outFile.data)

\* a re-run has finished after a run that was interrupted with a completed
\* checkpoint holding engine results
C3_Witness ==
    /\ pc = "done"
    /\ run = 2
    /\ prevDone # {}
    /\ \E i \in 1..N : inFile[i] = StaleSample(i)

\* C4: when the process is killed during a checkpoint write, the checkpoint
\* file is a complete checkpoint (the previous one or the new one), never
\* an empty or partly written file.
C4_CheckpointWriteIsAtomic ==
    (pc = "killed" /\ err.stage \in DumpPoints) => tmpFile.st = "complete"

\* C5: once the candidate-generation stage has completed, every sample's
\* baseline is the first element of its candidate list.
C5_BaselineIsFirstCandidate ==
    pc \in {"save1", "dump1"} =>
        \A i \in 1..N : samples[i].baseline = Some(Val(samples[i].candidates)[1])

\* C6: with the candidates-overwrite flag set and the summary-overwrite flag
\* not set, at the end of the summarization stage candidate_summary has been
\* recomputed by a language-model call for every sample, and its prompt is
\* the prompt built from the sample's candidates and plugin outputs.
C6_CandidateOverwriteForcesSummaries ==
    (SummariesStageDone /\ opts.overwrite_candidates
        /\ ~opts.overwrite_candidate_summaries) =>
        \A i \in 1..N :
            /\ Call(i, "candidate_summary", "") \in calls
            /\ ~IsNone(samples[i].candidate_summary)
            /\ Val(samples[i].candidate_summary) \in Summaries
            /\ samples[i].candidate_summary_prompt =
                  Some(get_prompt_for_candidates(Val(samples[i].candidates),
                                                 PluginValues(samples[i])))

\* the stage has ended under that flag setting on a dataset in which a
\* sample already had a candidate summary
C6_Witness ==
    /\ SummariesStageDone
    /\ opts.overwrite_candidates
    /\ ~opts.overwrite_candidate_summaries
    /\ \E i \in 1..N :
          /\ inFile[i].candidate_summary = Some("osum")
          /\ samples[i].candidate_summary # inFile[i].candidate_summary
\* C7: a checkpoint is written after every stage: when the plugin stage, the
\* summarization stage, the metric stage and the aggregation are entered,
\* the checkpoint of the stage before has just been completed and the file
\* <output_path>.tmp holds the full sample sequence as that stage left it.
C7_CheckpointAfterEveryStage ==
    /\ (pc = "plugins" /\ pidx = 1) =>
          (tmpFile = Complete(samples) /\ saved = <<"dump1">>)
    /\ pc = "new_lm" =>
          (tmpFile = Complete(samples) /\ saved = <<"dump1", "dump2">>)
    /\ pc = "base_metrics" =>
          (tmpFile = Complete(samples) /\ saved = <<"dump1", "dump2", "dump3">>)
    /\ pc = "aggregate" =>
          (tmpFile = Complete(samples) /\ Len(saved) = 7 /\ saved[7] = "dump7")

\* the summarization stage is entered after a plugin stage that changed the
\* samples
C7_Witness ==
    /\ pc = "new_lm"
    /\ Requested # {}
    /\ \E i \in 1..N : Call(i, "plugin_outputs", "p1") \in calls
    /\ \E i \in 1..N : samples[i].plugin_outputs # inFile[i].plugin_outputs

\* C8: the checkpoint is deleted only once the final output file has been
\* completely written by this run; when aggregation or the final write
\* fails or is interrupted, the complete checkpoint is still on disk; after
\* a successful run the final output exists and the checkpoint does not.
C8_FinalizeOrdering ==
    /\ [][(tmpFile.st # "absent" /\ tmpFile'.st = "absent") =>
            (/\ outFile.st = "complete"
             /\ outFile.data.samples = samples
             /\ "out" \in wrote)]_vars
    /\ []((pc = "aborted" /\ err.stage \in {"aggregate", "dump_output"}) =>
            tmpFile = Complete(samples))
    /\ []((pc = "killed" /\ err.stage \in {"aggregate", "open_output", "dump_output"}) =>
            tmpFile.st = "complete")
    /\ [](pc = "done" => (outFile.st = "complete" /\ tmpFile.st = "absent"))

\* a run has finished: the output is written and the checkpoint removed
C8_Witness ==
    /\ pc = "done"
    /\ "out" \in wrote
    /\ "tmp" \in wrote
    /\ outFile.st = "complete"
    /\ tmpFile.st = "absent"

\* C9 as claimed: the construction failure of any engine aborts the run
\* before any sample has been mutated and before anything has been written.
C9_EngineLoadFailureBeforeAnyEffect ==
    (pc = "aborted" /\ err.kind = "EngineLoad") => (samples = inFile /\ wrote = {})

SummaryFields ==
    {"candidate_summary", "candidate_summary_prompt",
     "reference_summary", "reference_summary_prompt"}
\* the calls made to the engines of a stage
CallsOf(fields) == {c \in calls : c[2] \in fields}

\* C9 amended: the construction failure of the captioning engine aborts the
\* run before any sample has been mutated, any engine called or anything
\* written; the construction failure of a plugin engine or of the language
\* model aborts the run before that engine has been called on any sample,
\* after the earlier stages have run and with their checkpoint on disk.
C9_EngineLoadFailureBeforeOwnStage ==
    (pc = "aborted" /\ err.kind = "EngineLoad") =>
        /\ err.stage = "candidates" =>
              (samples = inFile /\ wrote = {} /\ calls = {})
        /\ err.stage = "plugins" =>
              /\ \A c \in CallsOf({"plugin_outputs"}) :
                    \E k \in 1..(pidx - 1) : c[3] = opts.plugin[k]
              /\ CallsOf(SummaryFields) = {}
              /\ saved = <<"dump1">>
              /\ tmpFile.st = "complete"
              /\ \A i \in 1..N :
                    tmpFile.data[i] =
                        [samples[i] EXCEPT !.plugin_outputs = inFile[i].plugin_outputs]
        /\ err.stage = "summaries" =>
              /\ CallsOf(SummaryFields) = {}
              /\ saved = <<"dump1", "dump2">>
              /\ tmpFile = Complete(samples)

\* the second plugin failed to load after the first one had run
C9_Witness ==
    /\ pc = "aborted"
    /\ err.kind = "EngineLoad"
    /\ err.stage = "plugins"
    /\ pidx = 2
    /\ samples # inFile
    /\ "tmp" \in wrote
    /\ \E i \in 1..N : Call(i, "plugin_outputs", "p1") \in calls

\* the fields of a sample that the summarization stage owns, set back to
\* their input values
WithoutSummaries(s, a) ==
    [s EXCEPT !.candidate_summary = a.candidate_summary,
              !.candidate_summary_prompt = a.candidate_summary_prompt,
              !.reference_summary = a.reference_summary,
              !.reference_summary_prompt = a.reference_summary_prompt]

\* C10: when an engine call fails on sample i in stage k the run is over:
\* no later sample has been handed to the engine of stage k, no later stage
\* has run, nothing of stage k is in the checkpoint, no metrics and no
\* final output have been produced, and (for k > 1) the checkpoint file is
\* the complete one written at the end of stage k - 1; for k = 1 this run
\* has written no file at all.
C10_EngineFailureAbortsRun ==
    (pc = "aborted" /\ err.kind = "EngineInference") =>
        /\ "out" \notin wrote
        /\ metrics = None
        /\ \A j \in 1..N : samples[j].scores = <<>>
        /\ err.stage = "candidates" =>
              /\ wrote = {}
              /\ saved = <<>>
              /\ \A c \in calls : c[2] = "candidates" /\ c[1] <= err.sample
              /\ \A j \in (err.sample)..N : samples[j] = inFile[j]
        /\ err.stage = "plugins" =>
              /\ saved = <<"dump1">>
              /\ tmpFile.st = "complete"
              /\ \A j \in 1..N :
                    tmpFile.data[j] =
                        [samples[j] EXCEPT !.plugin_outputs = inFile[j].plugin_outputs]
              /\ CallsOf(SummaryFields) = {}
              /\ \A c \in CallsOf({"plugin_outputs"}) :
                    /\ \E k \in 1..pidx : c[3] = opts.plugin[k]
                    /\ c[3] = opts.plugin[pidx] => c[1] <= err.sample
              /\ \A j \in (err.sample + 1)..N :
                    PluginOutputOf(samples[j], opts.plugin[pidx]) =
                        PluginOutputOf(inFile[j], opts.plugin[pidx])
        /\ err.stage = "summaries" =>
              /\ saved = <<"dump1", "dump2">>
              /\ tmpFile.st = "complete"
              /\ \A j \in 1..N : tmpFile.data[j] = WithoutSummaries(samples[j], inFile[j])
              /\ \A c \in CallsOf(SummaryFields) : c[1] <= err.sample
              /\ \A j \in (err.sample + 1)..N :
                    samples[j] = WithoutSummaries(samples[j], inFile[j])

\* the language model failed on the second sample after the first sample's
\* summaries had been computed in memory
C10_Witness ==
    /\ pc = "aborted"
    /\ err.kind = "EngineInference"
    /\ err.stage = "summaries"
    /\ err.sample = 2
    /\ Call(1, "candidate_summary", "") \in calls
    /\ tmpFile.st = "complete"
    /\ tmpFile.data[1] # samples[1]
\* C11: whenever the root JSON value of the dataset file is neither a list
\* nor an object with a samples key, the run ends in the load with a
\* DatasetFormatError, before any engine is constructed and before any
\* stage runs.
C11_MalformedRootFailsInLoad ==
    (root \notin ListRoots /\ pc \notin {"load", "killed"}) =>
        /\ pc = "aborted"
        /\ err.stage = "load"
        /\ ~captioner
\* ---- sums computed by counting how often each value occurs
RECURSIVE WeightedSum(_, _)
WeightedSum(V, f) ==
    IF V = {} THEN 0
    ELSE LET v == CHOOSE x \in V : TRUE
         IN  v * Cardinality({i \in DOMAIN f : f[i] = v}) + WeightedSum(V \ {v}, f)
TotalOf(f) == WeightedSum({f[i] : i \in DOMAIN f}, f)
Report == Val(metrics)
Aggregated == pc = "open_output"
CountersOf(ss) ==
    [i \in 1..Len(ss) |-> <<Val(ss[i].hallucinated_object_count), Val(ss[i].object_count)>>]

\* C12: when a sample lacks a score key that the aggregation reads, the
\* aggregation fails with an error that identifies the missing key and the
\* index of the offending sample, and no metrics report is produced.
C12_MissingKeyNamesKeyAndSample ==
    (pc = "aborted" /\ err.stage = "aggregate" /\ MissingKey(samples)) =>
        /\ metrics = None
        /\ ~IsNone(AggError(samples).key)
        /\ \E i \in 1..N :
              /\ Val(AggError(samples).key) \notin DOMAIN samples[i].scores
              /\ AggError(samples).sample = Some(i)

\* C13: hallucinated_objects_percentage is the sum of
\* hallucinated_object_count over all samples divided by the sum of
\* object_count over all samples.
C13_ObjectsPercentageIsRatioOfSums ==
    Aggregated =>
        Report.hallucinations.hallucinated_objects_percentage =
            <<TotalOf([i \in 1..N |-> CountersOf(samples)[i][1]]),
              TotalOf([i \in 1..N |-> CountersOf(samples)[i][2]])>>

\* the counters (1,4), (0,3), (2,5) give 3/12, not the mean of the ratios
C13_Witness ==
    /\ Aggregated
    /\ CountersOf(samples) = <<<<1, 4>>, <<0, 3>>, <<2, 5>>>>
    /\ Report.hallucinations.hallucinated_objects_percentage = <<3, 12>>

\* C14: hallucinated_captions_percentage is the number of samples with
\* hallucinated_object_count > 0 divided by the number of samples: a sample
\* with count 0 is in the denominator only.
C14_CaptionsPercentageIsFraction ==
    Aggregated =>
        LET q == Report.hallucinations.hallucinated_captions_percentage
        IN  /\ q[2] = N
            /\ q[1] + Cardinality({i \in 1..N : CountersOf(samples)[i][1] = 0}) = N

\* the counters (1,4), (0,3), (2,5) give 2/3
C14_Witness ==
    /\ Aggregated
    /\ CountersOf(samples) = <<<<1, 4>>, <<0, 3>>, <<2, 5>>>>
    /\ Report.hallucinations.hallucinated_captions_percentage = <<2, 3>>

\* C15: every metric of the groups standard, clip_recall and content_recall
\* and average_hungarian_matching_score is the sum over all samples of the
\* value at the metric's path in scores, each sample counted once, divided
\* by the number of samples.
C15_MeansOverAllSamples ==
    Aggregated =>
        /\ \A k \in 1..Len(MeanMetrics) :
              Report[MeanMetrics[k].group][MeanMetrics[k].name] =
                  <<TotalOf([i \in 1..N |-> samples[i].scores[MeanMetrics[k].key]]), N>>
        /\ Report.hallucinations.average_hungarian_matching_score =
              <<TotalOf([i \in 1..N |-> samples[i].scores[HungarianKey]]), N>>

\* the values 2, 4, 6 of candidate_summary_bleu_1 give the mean 4
C15_Witness ==
    /\ Aggregated
    /\ N = 3
    /\ \A i \in 1..N : samples[i].scores["candidate_summary_bleu_1"] = 2 * i
    /\ Report.standard["candidate_summary_bleu_1"][1] =
          4 * Report.standard["candidate_summary_bleu_1"][2]
\* the dataset of this run is the output of a complete run
InputIsOutput ==
    /\ root = "object_with_samples"
    /\ inFile # <<>>
    /\ \A i \in 1..Len(inFile) : DOMAIN inFile[i].scores = AllScoreKeys

\* C16: with no overwrite flags, the pipeline run on the samples that a
\* complete run produced makes no captioning, plugin or language-model call,
\* leaves candidates, baseline, plugin_outputs and both summaries with their
\* prompts unchanged, and writes the same samples and the same metrics
\* report again.
C16_RerunOnOutputIsIdentity ==
    (InputIsOutput /\ NoOverwrite) =>
        /\ calls = {}
        /\ Loaded =>
              \A i \in 1..N :
                  /\ samples[i].candidates = inFile[i].candidates
                  /\ samples[i].baseline = inFile[i].baseline
                  /\ samples[i].plugin_outputs = inFile[i].plugin_outputs
                  /\ samples[i] = WithoutSummaries(samples[i], inFile[i])
        /\ pc = "done" =>
              outFile = Complete([samples |-> inFile,
                                  metrics |-> _extract_and_aggregate_metrics(inFile)])

\* the second run has finished on the output of a first run that had
\* called every engine
C16_Witness ==
    /\ InputIsOutput
    /\ NoOverwrite
    /\ pc = "done"
    /\ run = 2
    /\ Requested = {"p1", "p2"}
    /\ \E i \in 1..N :
          /\ Val(inFile[i].candidates) \in CaptionOutputs
          /\ inFile[i].candidate_summary = Some("sum")
          /\ inFile[i].reference_summary = Some("sum")
\* C17: while a run is in progress at most one engine is held: the
\* captioning engine is no longer live when a plugin engine or the language
\* model is constructed, and no plugin engine is live when the language
\* model is constructed.
C17_AtMostOneEngineHeld ==
    pc \notin Ended =>
        /\ ~(captioner /\ ~IsNone(pl))
        /\ ~(captioner /\ lm)
        /\ ~(~IsNone(pl) /\ lm)

\* position of a call (sample, field, plugin name) in the order of the code
PluginPos(name) == CHOOSE k \in 1..Len(opts.plugin) : opts.plugin[k] = name
CallKey(c) ==
    << CASE c[2] = "candidates" -> 1 [] c[2] = "plugin_outputs" -> 2 [] OTHER -> 3,
       IF c[2] = "plugin_outputs" THEN PluginPos(c[3]) ELSE 0,
       c[1],
       IF c[2] = "reference_summary" THEN 2 ELSE 1 >>
LexLess(a, b) ==
    \E k \in 1..Len(a) : a[k] < b[k] /\ \A j \in 1..(k - 1) : a[j] = b[j]
Before(d, c) == LexLess(CallKey(d), CallKey(c))
ScoresOf(ss) == [i \in 1..Len(ss) |-> ss[i].scores]

\* C18: within a run every step makes at most one engine call, and a new
\* call comes after every earlier call of the run in the order (captioning,
\* plugins in the order requested, language model), then by sample index in
\* input order, the candidate summary of a sample before its reference
\* summary; an engine is called only while no metric has been computed and
\* no report aggregated, and a step that computes a metric or the report
\* calls no engine.
C18_FixedStageAndSampleOrder ==
    [][ run' = run =>
          /\ calls' # calls =>
                /\ \E c \in calls' \ calls :
                      /\ calls' = calls \cup {c}
                      /\ \A d \in calls : Before(d, c)
                /\ metrics = None
                /\ ScoresOf(samples) = ScoresOf(inFile)
                /\ metrics' = None
                /\ pc' # "aborted" => ScoresOf(samples') = ScoresOf(samples)
          /\ (metrics' # metrics \/ (Loaded /\ pc' \notin {"killed", "load"}
                                      /\ ScoresOf(samples') # ScoresOf(samples))) =>
                calls' = calls
      ]_vars

\* a complete run that called every engine for both samples
C18_Witness ==
    /\ pc = "done"
    /\ N = 2
    /\ opts.plugin = <<"p1", "p2">>
    /\ \A i \in 1..N :
          /\ Call(i, "candidates", "") \in calls
          /\ Call(i, "plugin_outputs", "p1") \in calls
          /\ Call(i, "plugin_outputs", "p2") \in calls
          /\ Call(i, "candidate_summary", "") \in calls
          /\ Call(i, "reference_summary", "") \in calls

\* C19: when a candidate or reference summary is requested for a sample, the
\* sample has non-null candidates and a non-null output of every requested
\* plugin, and the paired prompt field holds the prompt built from the
\* candidate (reference) list and all the plugin outputs stored on the
\* sample, which is the prompt handed to the language model.
C19_PromptPairedWithSummary ==
    Loaded =>
        \A i \in 1..N :
            /\ (Call(i, "candidate_summary", "") \in calls \/
                Call(i, "reference_summary", "") \in calls) =>
                  /\ ~IsNone(samples[i].candidates)
                  /\ \A name \in Requested : ~IsNone(PluginOutputOf(samples[i], name))
            /\ Call(i, "candidate_summary", "") \in calls =>
                  samples[i].candidate_summary_prompt =
                      Some([captions |-> Val(samples[i].candidates),
                            plugin_outputs |-> PluginValues(samples[i])])
            /\ Call(i, "reference_summary", "") \in calls =>
                  samples[i].reference_summary_prompt =
                      Some([captions |-> samples[i].references,
                            plugin_outputs |-> PluginValues(samples[i])])

\* the summarization stage has computed both summaries of a sample whose
\* plugin outputs were computed in this run
C19_Witness ==
    /\ SummariesStageDone
    /\ Requested = {"p1", "p2"}
    /\ \E i \in 1..N :
          /\ Call(i, "plugin_outputs", "p1") \in calls
          /\ Call(i, "candidate_summary", "") \in calls
          /\ Call(i, "reference_summary", "") \in calls
          /\ samples[i].candidate_summary = Some("sum")
          /\ Len(PluginValues(samples[i])) = 2

\* C20: once the candidate-generation stage is complete, the candidates of
\* every sample are a sequence of length num_candidates, also for a sample
\* that arrived with a candidate list.
C20_CandidatesHaveRequestedLength ==
    (Loaded /\ pc \notin {"new_captioner", "candidates", "aborted"}) =>
        \A i \in 1..N : Len(Val(samples[i].candidates)) = NumCandidates
PluginsStageDone == pc \in {"save2", "dump2"}

\* C21: with overwrite_candidates set, once the plugin stage is complete the
\* plugin engine of every requested plugin has been called for every sample,
\* also where an output was present; with either overwrite flag set, once
\* the summarization stage is complete the reference summary of every sample
\* has been requested from the language model and its prompt rebuilt, also
\* where a reference summary was present; with neither flag set, no plugin
\* output and no reference summary present in the input is ever recomputed.
C21_OverwriteFlagsReachPluginsAndReference ==
    /\ (opts.overwrite_candidates /\ PluginsStageDone) =>
          \A i \in 1..N : \A name \in Requested :
              /\ Call(i, "plugin_outputs", name) \in calls
              /\ Val(PluginOutputOf(samples[i], name)) \in PluginOutputs
    /\ ((opts.overwrite_candidates \/ opts.overwrite_candidate_summaries)
            /\ SummariesStageDone) =>
          \A i \in 1..N :
              /\ Call(i, "reference_summary", "") \in calls
              /\ Val(samples[i].reference_summary) \in Summaries
              /\ samples[i].reference_summary_prompt =
                    Some([captions |-> samples[i].references,
                          plugin_outputs |-> PluginValues(samples[i])])
    /\ (NoOverwrite /\ Loaded) =>
          \A i \in 1..N :
              /\ ~IsNone(inFile[i].reference_summary) =>
                    /\ Call(i, "reference_summary", "") \notin calls
                    /\ samples[i].reference_summary = inFile[i].reference_summary
                    /\ samples[i].reference_summary_prompt =
                          inFile[i].reference_summary_prompt
              /\ \A name \in Requested :
                    ~IsNone(PluginOutputOf(inFile[i], name)) =>
                        /\ Call(i, "plugin_outputs", name) \notin calls
                        /\ PluginOutputOf(samples[i], name) =
                              PluginOutputOf(inFile[i], name)

\* only overwrite_candidates is set and a sample that arrived with plugin
\* outputs and a reference summary has had both recomputed
C21_Witness ==
    /\ SummariesStageDone
    /\ opts.overwrite_candidates
    /\ ~opts.overwrite_candidate_summaries
    /\ Requested = {"p1", "p2"}
    /\ \E i \in 1..N :
          /\ PluginOutputOf(inFile[i], "p1") = Some("old")
          /\ PluginOutputOf(samples[i], "p1") = Some("det")
          /\ inFile[i].reference_summary = Some("osum")
          /\ samples[i].reference_summary = Some("sum")
          /\ Call(i, "plugin_outputs", "p1") \in calls
          /\ Call(i, "reference_summary", "") \in calls
\* the denominators of the two quotients, counted from the samples
NoSamples == N = 0
ObjectCounts == [i \in 1..N |-> Val(samples[i].object_count)]
ZeroObjectTotal == N > 0 /\ TotalOf(ObjectCounts) = 0
HasAllKeys(keys) == \A i \in 1..N : keys \subseteq DOMAIN samples[i].scores
AggregateReturned == pc \notin {"aggregate", "aborted"} \/ err.stage # "aggregate"
FailedWithZeroDivision ==
    /\ pc = "aborted"
    /\ err.stage = "aggregate"
    /\ err.kind = "ZeroDivisionError"
    /\ metrics = None
    /\ "out" \notin wrote
    /\ outFile = Absent
    /\ tmpFile = Complete(samples)
ReturnedReport ==
    /\ AggregateReturned
    /\ ~IsNone(metrics)
    /\ DOMAIN Report = {"standard", "clip_recall", "content_recall", "hallucinations"}

\* C22 as stated: once the aggregation has been attempted, whenever the
\* sample list is empty or the object counts sum to 0 the run has failed
\* with a division-by-zero error, has written no output file and has left
\* the checkpoint; for a non-empty list with complete scores and a positive
\* sum a report with the four groups has been returned.
C22_ZeroDenominatorRaisesZeroDivision ==
    pc # "aggregate" =>
        /\ (NoSamples \/ ZeroObjectTotal) => FailedWithZeroDivision
        /\ (N > 0 /\ HasAllKeys(AllScoreKeys) /\ ~ZeroObjectTotal) => ReturnedReport

\* C22 amended: the division-by-zero error is raised when the sample list is
\* empty, or when the object counts sum to 0 and every sample has the score
\* keys of the means that are evaluated before the quotient (all but
\* hungarian_matching_score, which is read after it); the output file is
\* then not written and the checkpoint stays. When the sum is 0 and such a
\* key is missing the aggregation fails as well, with the KeyError of that
\* key. For a non-empty list with complete scores and a positive sum a
\* report with the four groups is returned.
C22_ZeroDivisionUnlessKeyErrorFirst ==
    pc # "aggregate" =>
        /\ (NoSamples \/ (ZeroObjectTotal /\ HasAllKeys(AllScoreKeys \ {HungarianKey}))) =>
              FailedWithZeroDivision
        /\ (ZeroObjectTotal /\ ~HasAllKeys(AllScoreKeys \ {HungarianKey})) =>
              /\ pc = "aborted"
              /\ err.stage = "aggregate"
              /\ err.kind = "KeyError"
              /\ metrics = None
              /\ "out" \notin wrote
              /\ tmpFile = Complete(samples)
        /\ (N > 0 /\ HasAllKeys(AllScoreKeys) /\ ~ZeroObjectTotal) => ReturnedReport

\* two samples with complete scores and no object at all: the aggregation
\* has raised the division-by-zero error
C22_Witness ==
    /\ pc = "aborted"
    /\ err.kind = "ZeroDivisionError"
    /\ N = 2
    /\ HasAllKeys(AllScoreKeys)
    /\ CountersOf(samples) = <<<<0, 0>>, <<0, 0>>>>
    /\ tmpFile = Complete(samples)
====
